---- MODULE Spec2Model ----
(***************************************************************************)
(* Model of the job scheduler (JobQueue), the job entity helpers and the   *)
(* orchestration facade (AIService) with its callers.                      *)
(*                                                                         *)
(* The scheduler runs on a single JavaScript thread.  One action of the    *)
(* model is one uninterrupted run of scheduler code: a public method call  *)
(* up to its return, or the continuation of processNext after the awaited  *)
(* executor promise settles.  Event handlers are observers: the events a   *)
(* run emits are recorded in `emitted` (this run) and `hist` (per job).    *)
(***************************************************************************)
EXTENDS Integers, Sequences, FiniteSets, TLC

(* ---------------------------- bounds ----------------------------------- *)
MaxJobs == 2          \* jobs enqueued in one behaviour
MaxSyncThrows == 1    \* consecutive executor calls that throw synchronously
MaxProgress == 2      \* onProgress calls in one behaviour
MaxFailures == 3      \* executor failures (rejections and throws) in one behaviour

(* ------------------------- program constants --------------------------- *)
DefaultPriority == 5
DefaultMaxRetries == 3

JobTypes == {"analyze-content", "embed-note"}
Priorities == {1, 5}
\* the optional `priority` argument: <<>> is `undefined`, <<p>> is p
PriorityArgs == {<<>>} \cup {<<p>> : p \in Priorities}
Msgs == {"boom", "Budget limit exceeded"}
ProgressValues == {25, 75}
NoExecutorError == "No executor registered for job type"

\* `No executor registered for job type: ${job.type}`
NoExecutorErrorFor(type) == NoExecutorError \o ": " \o type

VARIABLES
    queue,      \* JobQueue.queue: sequence of job ids (pending list)
    running,    \* JobQueue.running: job id, 0 for null
    paused,     \* JobQueue.paused
    executors,  \* JobQueue.executors: set of job types with an executor
    jobs,       \* the Job objects created so far, indexed by id
    inflight,   \* jobs whose executor promise has not settled yet
    emitted,    \* events emitted by the last run, in order
    hist,       \* per job, the names of the events emitted for it so far
    seen,       \* per event emitted by the last run, what its handlers can
                \* read from the scheduler while they run
    op          \* the last call: [name, arg, ret]

qvars == <<queue, running, paused, executors, jobs, inflight, emitted, hist,
          seen, op>>

VARIABLES
    providers,    \* AIService.providers: ids of the registered adapters
    settings,     \* AIService.settings (AISettings)
    adapterCalls, \* number of calls of an adapter's generateText so far
    lastCall,     \* provider, key, model and outcome of the last adapter call
    records,      \* CostTracker: the usage records, in order
    trackerLimit, \* CostTracker: the budget limit
    aiOp          \* the last call: [name, spend, ret]

avars == <<providers, settings, adapterCalls, lastCall, records, trackerLimit, aiOp>>

VARIABLES
    listeners,  \* EventEmitter.listeners: per event with an entry, its Set of
                \* callbacks in insertion order
    wrappers,   \* number of closures created by once() so far
    calls,      \* the handler invocations of the last emit call, in order
    logged,     \* number of handler errors logged by the last emit call
    delivered,  \* per once() closure, how often its callback has been invoked
    eeOp        \* the last call: [name, event, cb, payload, threw]

evars == <<listeners, wrappers, calls, logged, delivered, eeOp>>

(* ------------------------------ job entity ----------------------------- *)
createJobNoRetries(type, prioArg) ==
    [ type       |-> type,
      status     |-> "pending",
      progress   |-> 0,
      priority   |-> IF prioArg = <<>> THEN DefaultPriority ELSE prioArg[1],
      retryCount |-> 0,
      maxRetries |-> 0,
      error      |-> "",
      hasResult  |-> FALSE,
      startedAt  |-> FALSE,
      completedAt |-> FALSE ]

\* createJob(type, data, {priority}): defaults applied with ??
createJob(type, prioArg) ==
    [ type       |-> type,
      status     |-> "pending",
      progress   |-> 0,
      priority   |-> IF prioArg = <<>> THEN DefaultPriority ELSE prioArg[1],
      retryCount |-> 0,
      maxRetries |-> DefaultMaxRetries,
      error      |-> "",
      hasResult  |-> FALSE,
      startedAt  |-> FALSE,
      completedAt |-> FALSE ]

canRetryOffByOne(job) == job.retryCount <= job.maxRetries

\* canRetry(job)

canRetry(job) == job.retryCount < job.maxRetries

isTerminal(job) == job.status \in {"completed", "failed", "cancelled"}

(* --------------------------- scheduler state --------------------------- *)
\* The mutable part of the scheduler, passed through the operators below.
QState == [ queue |-> queue, running |-> running, paused |-> paused,
            jobs |-> jobs, inflight |-> inflight, emitted |-> <<>>,
            hist |-> hist, seen |-> <<>> ]

\* getStatus()
getStatus(s) ==
    [ pending |-> Len(s.queue), running |-> s.running # 0,
      paused |-> s.paused, currentJob |-> s.running ]

\* the statuses of the jobs in list q, in order
RECURSIVE StatusesOf(_, _)
StatusesOf(q, js) ==
    IF q = <<>> THEN <<>>
    ELSE <<js[Head(q)].status>> \o StatusesOf(Tail(q), js)

\* What a caller reads in state s: getStatus(), the status of the job in the
\* running slot ("none" for null), the statuses of the listed jobs, and the
\* number of jobs of status 'running' and of status 'pending'.
Observe(s) ==
    [ status |-> getStatus(s),
      slot |-> IF s.running = 0 THEN "none" ELSE s.jobs[s.running].status,
      listed |-> StatusesOf(s.queue, s.jobs),
      runningJobs |-> Cardinality({j \in DOMAIN s.jobs : s.jobs[j].status = "running"}),
      pendingJobs |-> Cardinality({j \in DOMAIN s.jobs : s.jobs[j].status = "pending"}) ]

\* this.emitter.emit(ev, payload): j is the job of the payload, 0 for none
Emit(s, ev, j) ==
    [s EXCEPT !.emitted = Append(@, [ev |-> ev, job |-> j]),
              !.seen = Append(@, Observe(s)),
              !.hist = IF j = 0 THEN @ ELSE [@ EXCEPT ![j] = Append(@, ev)]]

\* queue.findIndex(j => j.priority > job.priority); 0 stands for -1
FirstGreaterOrEqual(q, js, p) ==
    LET idx == {i \in 1..Len(q) : js[q[i]].priority >= p}
    IN IF idx = {} THEN 0 ELSE CHOOSE i \in idx : \A k \in idx : i <= k

FirstGreater(q, js, p) ==
    LET idx == {i \in 1..Len(q) : js[q[i]].priority > p}
    IN IF idx = {} THEN 0 ELSE CHOOSE i \in idx : \A k \in idx : i <= k

\* push when findIndex is -1, splice(insertIndex, 0, job) otherwise
InsertAt(q, i, j) ==
    IF i = 0 THEN Append(q, j)
    ELSE SubSeq(q, 1, i - 1) \o <<j>> \o SubSeq(q, i, Len(q))

RemoveAtNothing(q, i) == q

\* queue.splice(index, 1)
RemoveAt(q, i) == SubSeq(q, 1, i - 1) \o SubSeq(q, i + 1, Len(q))

\* as if splice(-1, 1) ran when the id is not found: the last element
IndexOfIdOrLast(q, id) ==
    LET idx == {i \in 1..Len(q) : q[i] = id}
    IN IF idx = {} THEN Len(q) ELSE CHOOSE i \in idx : \A k \in idx : i <= k

\* queue.findIndex(j => j.id === jobId); 0 stands for -1
IndexOfId(q, id) ==
    LET idx == {i \in 1..Len(q) : q[i] = id}
    IN IF idx = {} THEN 0 ELSE CHOOSE i \in idx : \A k \in idx : i <= k

\* the guard of processNext, negated: a job can be taken from the list
CanDispatchIgnoringRunning(s) == ~s.paused /\ s.queue # <<>>

\* as if the guard did not test the paused flag
CanDispatchIgnoringPaused(s) == s.running = 0 /\ s.queue # <<>>

CanDispatch(s) == ~s.paused /\ s.running = 0 /\ s.queue # <<>>

\* as if the completion were recorded without its event
OnResolvedNoEvent(s, j) ==
    [s EXCEPT !.jobs[j].status = "completed",
              !.jobs[j].hasResult = TRUE,
              !.jobs[j].progress = 100,
              !.jobs[j].completedAt = TRUE]

\* as if the progress of a completed job were left as last reported
OnResolvedKeepsProgress(s, j) ==
    Emit([s EXCEPT !.jobs[j].status = "completed",
                   !.jobs[j].hasResult = TRUE,
                   !.jobs[j].completedAt = TRUE],
         "job:completed", j)

\* the success branch after the await
OnResolved(s, j) ==
    Emit([s EXCEPT !.jobs[j].status = "completed",
                   !.jobs[j].hasResult = TRUE,
                   !.jobs[j].progress = 100,
                   !.jobs[j].completedAt = TRUE],
         "job:completed", j)

\* as if the retried job were pushed to the back of the list
OnRejectedPushBack(s, j, msg) ==
    LET s1 == [s EXCEPT !.jobs[j].retryCount = @ + 1]
    IN IF canRetry(s1.jobs[j])
       THEN [s1 EXCEPT !.jobs[j].status = "pending",
                       !.queue = Append(@, j)]
       ELSE Emit([s1 EXCEPT !.jobs[j].status = "failed",
                            !.jobs[j].error = msg,
                            !.jobs[j].completedAt = TRUE],
                 "job:failed", j)

\* as if the status of a re-queued job were left 'running'
OnRejectedKeepsRunning(s, j, msg) ==
    LET s1 == [s EXCEPT !.jobs[j].retryCount = @ + 1]
    IN IF canRetry(s1.jobs[j])
       THEN [s1 EXCEPT !.queue = <<j>> \o @]
       ELSE Emit([s1 EXCEPT !.jobs[j].status = "failed",
                            !.jobs[j].error = msg,
                            !.jobs[j].completedAt = TRUE],
                 "job:failed", j)

\* as if job:failed were emitted for every failed attempt
OnRejectedAlwaysEmits(s, j, msg) ==
    LET s1 == [s EXCEPT !.jobs[j].retryCount = @ + 1]
    IN IF canRetry(s1.jobs[j])
       THEN Emit([s1 EXCEPT !.jobs[j].status = "pending",
                            !.queue = <<j>> \o @],
                 "job:failed", j)
       ELSE Emit([s1 EXCEPT !.jobs[j].status = "failed",
                            !.jobs[j].error = msg,
                            !.jobs[j].completedAt = TRUE],
                 "job:failed", j)

\* as if the catch block were empty
OnRejectedSwallow(s, j, msg) == s

\* as if the message of the caught error were dropped
OnRejectedGenericError(s, j, msg) ==
    LET s1 == [s EXCEPT !.jobs[j].retryCount = @ + 1]
    IN IF canRetry(s1.jobs[j])
       THEN [s1 EXCEPT !.jobs[j].status = "pending",
                       !.queue = <<j>> \o @]
       ELSE Emit([s1 EXCEPT !.jobs[j].status = "failed",
                            !.jobs[j].error = "Unknown error",
                            !.jobs[j].completedAt = TRUE],
                 "job:failed", j)

\* as if a budget error failed the job at once, without retries
OnRejectedBudgetFatal(s, j, msg) ==
    LET s1 == [s EXCEPT !.jobs[j].retryCount = @ + 1]
    IN IF canRetry(s1.jobs[j]) /\ msg # "Budget limit exceeded"
       THEN [s1 EXCEPT !.jobs[j].status = "pending",
                       !.queue = <<j>> \o @]
       ELSE Emit([s1 EXCEPT !.jobs[j].status = "failed",
                            !.jobs[j].error = msg,
                            !.jobs[j].completedAt = TRUE],
                 "job:failed", j)

\* the catch branch
OnRejected(s, j, msg) ==
    LET s1 == [s EXCEPT !.jobs[j].retryCount = @ + 1]
    IN IF canRetry(s1.jobs[j])
       THEN [s1 EXCEPT !.jobs[j].status = "pending",
                       !.queue = <<j>> \o @]
       ELSE Emit([s1 EXCEPT !.jobs[j].status = "failed",
                            !.jobs[j].error = msg,
                            !.jobs[j].completedAt = TRUE],
                 "job:failed", j)

\* as if a job without an executor were handled like a failed attempt
OnMissingExecutorRetry(s, j) == OnRejected(s, j, NoExecutorErrorFor(s.jobs[j].type))

\* the branch for a job type without an executor
OnMissingExecutor(s, j) ==
    Emit([s EXCEPT !.jobs[j].status = "failed",
                   !.jobs[j].error = NoExecutorErrorFor(s.jobs[j].type)],
         "job:failed", j)

\* as if queue:empty were emitted whenever the list is empty
IsIdleIgnoringRunning(s) == s.queue = <<>>

\* nothing pending and nothing running
IsIdle(s) == s.queue = <<>> /\ s.running = 0

\* processNext(): `throws` are the messages of the next executor calls that
\* throw synchronously; the call after them returns a pending promise.
RECURSIVE processNext(_, _)
processNext(s, throws) ==
    IF ~CanDispatch(s)
    THEN IF IsIdle(s)
         THEN Emit(s, "queue:empty", 0)
         ELSE s
    ELSE
      LET j  == Head(s.queue)
          s1 == [s EXCEPT !.queue = Tail(@), !.running = j]
      IN IF s.jobs[j].type \notin executors
         THEN processNext([OnMissingExecutor(s1, j) EXCEPT !.running = 0],
                          throws)
         ELSE
           LET s2 == Emit([s1 EXCEPT !.jobs[j].status = "running",
                                     !.jobs[j].startedAt = TRUE],
                          "job:started", j)
           IN IF throws # <<>>
              THEN processNext([OnRejected(s2, j, Head(throws))
                                  EXCEPT !.running = 0],
                               Tail(throws))
              ELSE [s2 EXCEPT !.inflight = @ \cup {j}]

\* the oracle values for processNext
RECURSIVE SeqsUpTo(_, _)
SeqsUpTo(S, n) ==
    IF n = 0 THEN {<<>>}
    ELSE LET shorter == SeqsUpTo(S, n - 1)
         IN shorter \cup {Append(t, x) : t \in {u \in shorter : Len(u) = n - 1}, x \in S}

SyncMsg == "thrown synchronously"

Throws == SeqsUpTo({SyncMsg}, MaxSyncThrows)

\* number of executor failures so far: each one incremented a retryCount
RECURSIVE Failures(_)
Failures(js) ==
    IF js = <<>> THEN 0 ELSE Head(js).retryCount + Failures(Tail(js))

\* the failures a run may still draw
Budgeted(n) == Failures(jobs) + n <= MaxFailures

\* write back the scheduler state after a run
Commit(s, name, arg, ret) ==
    /\ queue' = s.queue
    /\ running' = s.running
    /\ paused' = s.paused
    /\ jobs' = s.jobs
    /\ inflight' = s.inflight
    /\ emitted' = s.emitted
    /\ hist' = s.hist
    /\ seen' = s.seen
    /\ op' = [name |-> name, arg |-> arg, ret |-> ret]
    /\ UNCHANGED <<avars, evars>>

(* ------------------------------ operations ----------------------------- *)
registerExecutor(t) ==
    /\ t \notin executors
    /\ executors' = executors \cup {t}
    /\ emitted' = <<>>
    /\ seen' = <<>>
    /\ op' = [name |-> "registerExecutor", arg |-> 0, ret |-> 0]
    /\ UNCHANGED <<queue, running, paused, jobs, inflight, hist>>
    /\ UNCHANGED <<avars, evars>>

\* enqueue(type, data, priority) while fewer than `bound` jobs exist
enqueueWithin(bound, t, prioArg, throws) ==
    /\ Len(jobs) < bound
    /\ Budgeted(Len(throws))
    /\ LET job == createJob(t, prioArg)
           id  == Len(jobs) + 1
           s0  == [QState EXCEPT !.jobs = Append(@, job),
                                 !.hist = Append(@, <<>>)]
           s1  == [s0 EXCEPT !.queue =
                      InsertAt(@, FirstGreater(@, s0.jobs, job.priority), id)]
           s2  == Emit(s1, "job:created", id)
       IN Commit(processNext(s2, throws), "enqueue", prioArg, id)
    /\ UNCHANGED executors

enqueue(t, prioArg, throws) == enqueueWithin(MaxJobs, t, prioArg, throws)

\* number of job:progress events emitted so far
RECURSIVE ProgressCalls(_)
ProgressCalls(h) ==
    IF h = <<>> THEN 0
    ELSE Len(SelectSeq(Head(h), LAMBDA e : e = "job:progress")) + ProgressCalls(Tail(h))

\* the executor calls onProgress(p, message); an executor reports progress
\* while its call is pending, not after its promise has settled
onProgress(j, p) ==
    /\ j \in inflight
    /\ ProgressCalls(hist) < MaxProgress
    /\ Commit(Emit([QState EXCEPT !.jobs[j].progress = p], "job:progress", j),
              "onProgress", j, 0)
    /\ UNCHANGED executors

\* the executor promise of job j fulfils: continuation of processNext
executorResolves(j, throws) ==
    /\ j \in inflight
    /\ Budgeted(Len(throws))
    /\ LET s0 == [QState EXCEPT !.inflight = @ \ {j}]
           s1 == [OnResolved(s0, j) EXCEPT !.running = 0]
       IN Commit(processNext(s1, throws), "resolve", j, 0)
    /\ UNCHANGED executors

\* the executor promise of job j rejects: continuation of processNext
executorRejects(j, msg, throws) ==
    /\ j \in inflight
    /\ Budgeted(1 + Len(throws))
    /\ LET s0 == [QState EXCEPT !.inflight = @ \ {j}]
           s1 == [OnRejected(s0, j, msg) EXCEPT !.running = 0]
       IN Commit(processNext(s1, throws), "reject", j, msg)
    /\ UNCHANGED executors

cancel(jobId) ==
    /\ LET index == IndexOfId(queue, jobId)
       IN IF index # 0
          THEN LET j == queue[index]
                   s == Emit([QState EXCEPT !.queue = RemoveAt(@, index),
                                            !.jobs[j].status = "cancelled"],
                             "job:cancelled", j)
               IN Commit(s, "cancel", jobId, TRUE)
          ELSE Commit(QState, "cancel", jobId, FALSE)
    /\ UNCHANGED executors

pause ==
    /\ Commit(Emit([QState EXCEPT !.paused = TRUE], "queue:paused", 0),
              "pause", 0, 0)
    /\ UNCHANGED executors

\* as if resume only cleared the flag
resumeNoDispatch(throws) ==
    /\ Budgeted(Len(throws))
    /\ Commit(Emit([QState EXCEPT !.paused = FALSE], "queue:resumed", 0),
              "resume", 0, 0)
    /\ UNCHANGED executors

resume(throws) ==
    /\ Budgeted(Len(throws))
    /\ Commit(processNext(Emit([QState EXCEPT !.paused = FALSE],
                               "queue:resumed", 0), throws),
              "resume", 0, 0)
    /\ UNCHANGED executors

\* as if the jobs were announced as cancelled but not marked
RECURSIVE CancelAllEmitOnly(_, _)
CancelAllEmitOnly(s, q) ==
    IF q = <<>> THEN s
    ELSE CancelAllEmitOnly(Emit(s, "job:cancelled", Head(q)), Tail(q))

\* queue.forEach(job => { job.status = 'cancelled'; emit('job:cancelled') })
RECURSIVE CancelAll(_, _)
CancelAll(s, q) ==
    IF q = <<>> THEN s
    ELSE CancelAll(Emit([s EXCEPT !.jobs[Head(q)].status = "cancelled"],
                        "job:cancelled", Head(q)),
                   Tail(q))

clear ==
    /\ Commit([CancelAll(QState, queue) EXCEPT !.queue = <<>>], "clear", 0, 0)
    /\ UNCHANGED executors

\* The forEach of clear() from index i on, when a handler of job:cancelled
\* that calls resume() is subscribed: emit runs the handler synchronously, so
\* resume() and its processNext() run between two elements, on the list that
\* forEach is walking. forEach visits the indices below the length n the
\* list had at the start and skips those the list has no more.
RECURSIVE CancelAllResuming(_, _, _)
CancelAllResuming(s, i, n) ==
    IF i > n THEN s
    ELSE IF i > Len(s.queue) THEN CancelAllResuming(s, i + 1, n)
    ELSE LET j  == s.queue[i]
             s1 == Emit([s EXCEPT !.jobs[j].status = "cancelled"],
                        "job:cancelled", j)
             s2 == processNext(Emit([s1 EXCEPT !.paused = FALSE],
                                    "queue:resumed", 0), <<>>)
         IN CancelAllResuming(s2, i + 1, n)

\* clear() with emitter.on('job:cancelled', () => queue.resume()) subscribed
clearResuming ==
    /\ queue # <<>>
    /\ Commit([CancelAllResuming(QState, 1, Len(queue)) EXCEPT !.queue = <<>>],
              "clear", 0, 0)
    /\ UNCHANGED executors

(* ------------------------------ rate table ----------------------------- *)
\* Money is counted in units of 1e-8 dollar, so that a rate per 1M tokens
\* times a token count is an integer: rate r gives 100 * r units per token.
ModelKeys == {"claude-sonnet", "gpt-4o"}

MODEL_CONFIGS ==
    [k \in ModelKeys |->
        IF k = "claude-sonnet"
        THEN [id |-> "claude-sonnet-4-20250514", provider |-> "claude",
              inputCostPer1M |-> 300, outputCostPer1M |-> 1500]
        ELSE [id |-> "gpt-4o", provider |-> "openai",
              inputCostPer1M |-> 250, outputCostPer1M |-> 1000]]

\* as if output tokens were credited instead of charged
calculateCostCredit(modelKey, inputTokens, outputTokens) ==
    IF modelKey \notin ModelKeys THEN 0
    ELSE inputTokens * MODEL_CONFIGS[modelKey].inputCostPer1M
         - outputTokens * MODEL_CONFIGS[modelKey].outputCostPer1M

\* calculateCost(modelKey, inputTokens, outputTokens)
calculateCost(modelKey, inputTokens, outputTokens) ==
    IF modelKey \notin ModelKeys THEN 0
    ELSE inputTokens * MODEL_CONFIGS[modelKey].inputCostPer1M
         + outputTokens * MODEL_CONFIGS[modelKey].outputCostPer1M

\* getModelConfigById(modelId): the keys of the matching entries
getModelConfigById(modelId) ==
    {k \in ModelKeys : MODEL_CONFIGS[k].id = modelId}

\* Math.floor(n * num / 10) for n >= 0
FloorTenths(n, num) == (n * num) \div 10

(* ------------------------------- AIService ----------------------------- *)
ProviderIds == {"claude", "openai"}
\* settings.models as the defaults ship it, and with models of the rate table
DefaultModels ==
    [p \in ProviderIds |->
        IF p = "claude" THEN "claude-sonnet-4-5-20250929" ELSE "gpt-5.2"]
TableModels ==
    [p \in ProviderIds |->
        IF p = "claude" THEN "claude-sonnet-4-20250514" ELSE "gpt-4o"]
\* an optional number: <<>> is undefined. 100000000 units are 1.00 dollar
BudgetLimits == {<<>>, <<0>>, <<100000000>>}
SpendArgs == {<<>>, <<0>>, <<50000000>>, <<100000000>>}
ModelArgs == {<<>>, <<"gpt-4o-mini">>}

\* settings.apiKeys: no key at all, or a key for claude only
KeySets == {[p \in ProviderIds |-> ""],
            [p \in ProviderIds |-> IF p = "claude" THEN "sk-key" ELSE ""]}

\* the features that can be bound to a {provider, model} pair of their own
FeatureTypes == {"content-analysis", "permanent-note"}

\* settings.featureModels as the defaults ship it; <<>> is no entry
ShippedFeatureModels ==
    [f \in FeatureTypes |->
        IF f = "content-analysis"
        THEN << [provider |-> "openai", model |-> "gpt-4o-mini"] >>
        ELSE << [provider |-> "openai", model |-> "gpt-5.2"] >>]

\* content analysis bound to a claude model, note generation left unbound
PartialFeatureModels ==
    [f \in FeatureTypes |->
        IF f = "content-analysis"
        THEN << [provider |-> "claude", model |-> "claude-3-5-haiku-20241022"] >>
        ELSE <<>>]

SettingsSet ==
    [ provider : ProviderIds,
      apiKeys : KeySets,
      models : {DefaultModels, TableModels},
      featureModels : {ShippedFeatureModels, PartialFeatureModels},
      budgetLimit : BudgetLimits ]

DEFAULT_SETTINGS ==
    [ provider |-> "openai",
      apiKeys |-> [p \in ProviderIds |-> ""],
      models |-> DefaultModels,
      featureModels |-> ShippedFeatureModels,
      budgetLimit |-> <<>> ]

\* What an adapter does with a request. Of the text of a successful response:
\* `parses` tells whether parseResponse finds JSON with a summary and an array
\* of keyInsights in it, `spreads` whether its suggestedTags and relatedTopics
\* are absent or iterable (an LLM may answer "suggestedTags": 5).
AdapterOutcomes ==
    {[kind |-> "ok", parses |-> TRUE, spreads |-> TRUE, tokensUsed |-> 200000],
     [kind |-> "ok", parses |-> TRUE, spreads |-> TRUE, tokensUsed |-> 0],
     [kind |-> "ok", parses |-> TRUE, spreads |-> FALSE, tokensUsed |-> 200000],
     [kind |-> "ok", parses |-> FALSE, spreads |-> TRUE, tokensUsed |-> 200000],
     [kind |-> "fail", parses |-> FALSE, spreads |-> TRUE, tokensUsed |-> 0],
     [kind |-> "throw", parses |-> FALSE, spreads |-> TRUE, tokensUsed |-> 0]}

\* the TypeError of [...data.suggestedTags] in the AnalysisResult constructor
NotIterableError == "data.suggestedTags is not iterable"

\* the result of a call: a returned response or a thrown error
Returned(success, error) ==
    [threw |-> FALSE, success |-> success, error |-> error]
Thrown(message) == [threw |-> TRUE, success |-> FALSE, error |-> message]

\* the response (or exception) an adapter outcome stands for
ResponseOf(outcome) ==
    CASE outcome.kind = "ok" -> Returned(TRUE, "")
      [] outcome.kind = "fail" -> Returned(FALSE, "provider error")
      [] OTHER -> Thrown("network error")

\* as if an unregistered selection fell back to some registered adapter
getCurrentProviderFallback(provs, st) ==
    IF st.provider \in provs THEN <<st.provider>>
    ELSE IF provs # {} THEN <<CHOOSE p \in provs : TRUE>> ELSE <<>>

\* getCurrentProvider(): <<>> for undefined
getCurrentProvider(provs, st) ==
    IF st.provider \in provs THEN <<st.provider>> ELSE <<>>

\* getCurrentApiKey(): "" is falsy like undefined
getCurrentApiKey(st) == st.apiKeys[st.provider]

\* getCurrentModel()
getCurrentModel(st) == st.models[st.provider]

BudgetCheckStrict(st, spendArg) ==
    /\ st.budgetLimit # <<>> /\ st.budgetLimit # <<0>>
    /\ spendArg # <<>>
    /\ spendArg[1] > st.budgetLimit[1]

\* as if a limit of 0 were a limit like any other
BudgetCheckZeroLimits(st, spendArg) ==
    /\ st.budgetLimit # <<>>
    /\ spendArg # <<>>
    /\ spendArg[1] >= st.budgetLimit[1]

\* the budget check: settings.budgetLimit && currentSpend !== undefined,
\* then currentSpend >= settings.budgetLimit
BudgetCheck(st, spendArg) ==
    /\ st.budgetLimit # <<>> /\ st.budgetLimit # <<0>>
    /\ spendArg # <<>>
    /\ spendArg[1] >= st.budgetLimit[1]

\* AIService.generateText(messages, options, currentSpend): the result, and
\* the adapter call it made, if any
generateText(provs, st, modelArg, spendArg, outcome) ==
    LET provider == getCurrentProvider(provs, st)
        apiKey == getCurrentApiKey(st)
    IN IF provider = <<>>
       THEN [ret |-> Returned(FALSE, "No provider selected"), call |-> <<>>]
       ELSE IF apiKey = ""
       THEN [ret |-> Returned(FALSE, "No API key configured"), call |-> <<>>]
       ELSE IF BudgetCheck(st, spendArg)
       THEN [ret |-> Thrown("Budget limit exceeded"), call |-> <<>>]
       ELSE [ret |-> ResponseOf(outcome),
             call |-> << [provider |-> provider[1], apiKey |-> apiKey,
                          model |-> IF modelArg = <<>> THEN getCurrentModel(st)
                                    ELSE modelArg[1],
                          outcome |-> outcome] >>]

\* simpleGenerate(userPrompt, systemPrompt, options, currentSpend)
simpleGenerate(provs, st, modelArg, spendArg, outcome) ==
    generateText(provs, st, modelArg, spendArg, outcome)

\* Object.keys(modelConfig): the field names of a ModelConfig, in the order
\* the entries of the rate table are written
ModelConfigFields ==
    <<"id", "displayName", "provider", "inputCostPer1M", "outputCostPer1M",
      "maxInputTokens", "maxOutputTokens", "supportsVision",
      "supportsStreaming">>

\* estimateCost(inputTokens, outputTokens): the key handed to calculateCost is
\* Object.keys(modelConfig).find(key => modelConfig.id === modelId) || ''
estimateCost(st, inputTokens, outputTokens) ==
    LET modelId == getCurrentModel(st)
        keys == getModelConfigById(modelId)
    IN IF keys = {} THEN 0
       ELSE LET modelConfig == MODEL_CONFIGS[CHOOSE k \in keys : TRUE]
                found == SelectSeq(ModelConfigFields,
                                   LAMBDA key : modelConfig.id = modelId)
            IN calculateCost(IF found = <<>> THEN "" ELSE Head(found),
                             inputTokens, outputTokens)

\* getFeatureConfig(feature): the pair bound to the feature, or else the
\* globally selected provider and its model
getFeatureConfig(st, feature) ==
    IF st.featureModels[feature] # <<>> THEN st.featureModels[feature][1]
    ELSE [provider |-> st.provider, model |-> getCurrentModel(st)]

\* simpleGenerateForFeature(feature, userPrompt, systemPrompt, options): the
\* result, and the adapter call it made, if any
simpleGenerateForFeature(provs, st, feature, outcome) ==
    LET config == getFeatureConfig(st, feature)
        apiKey == st.apiKeys[config.provider]
    IN IF config.provider \notin provs
       THEN [ret |-> Returned(FALSE, "No provider selected"), call |-> <<>>]
       ELSE IF apiKey = ""
       THEN [ret |-> Returned(FALSE, "No API key configured"), call |-> <<>>]
       ELSE [ret |-> ResponseOf(outcome),
             call |-> << [provider |-> config.provider, apiKey |-> apiKey,
                          model |-> config.model, outcome |-> outcome] >>]

(* ------------------------------ CostTracker ---------------------------- *)
RECURSIVE SumSeq(_)
SumSeq(q) == IF q = <<>> THEN 0 ELSE Head(q) + SumSeq(Tail(q))

\* getCurrentSpend(): the sum of the recorded costs
getCurrentSpend(recs) == SumSeq([i \in DOMAIN recs |-> recs[i].cost])

\* the cost trackUsage records for (model, inputTokens, outputTokens)
UsageCost(model, inputTokens, outputTokens) ==
    LET keys == getModelConfigById(model)
    IN IF keys = {} THEN 0
       ELSE calculateCost(CHOOSE k \in keys : TRUE, inputTokens, outputTokens)

\* trackUsage(provider, model, inputTokens, outputTokens, feature)
trackUsage(recs, model, inputTokens, outputTokens) ==
    Append(recs, [model |-> model, inputTokens |-> inputTokens,
                  outputTokens |-> outputTokens,
                  cost |-> UsageCost(model, inputTokens, outputTokens)])

\* summarize(): the aggregate spend and the number of records
summarize(recs) ==
    [threw |-> FALSE, success |-> TRUE, error |-> "",
     totalCost |-> getCurrentSpend(recs), requests |-> Len(recs)]

(* --------------------------- AnalyzeContentUseCase --------------------- *)
TokenLimit == 100000

\* a text, by its numbers of Korean and of other characters
Contents == {[korean |-> 0, other |-> 400],
             [korean |-> 200000, other |-> 4],
             [korean |-> 0, other |-> 400000]}

\* estimateTokens(text) = Math.ceil(koreanChars / 2 + otherChars / 4)
estimateTokens(text) == (2 * text.korean + text.other + 3) \div 4

\* as if the content length were not validated
AnalyzeExecuteUnvalidated(provs, st, recs, content, outcome) ==
      LET g == simpleGenerate(provs, st, <<>>, <<>>, outcome)
      IN IF g.ret.threw
         THEN [ret |-> Returned(FALSE, g.ret.error),
               call |-> g.call, records |-> recs]
         ELSE IF ~g.ret.success
         THEN [ret |-> Returned(FALSE, g.ret.error),
               call |-> g.call, records |-> recs]
         ELSE IF ~outcome.parses
         THEN [ret |-> Returned(FALSE, "Failed to parse LLM response"),
               call |-> g.call, records |-> recs]
         ELSE [ret |-> IF outcome.spreads THEN Returned(TRUE, "")
                       ELSE Returned(FALSE, NotIterableError),
               call |-> g.call,
               records |->
                 IF outcome.tokensUsed # 0
                 THEN trackUsage(recs, getCurrentModel(st),
                                 FloorTenths(outcome.tokensUsed, 7),
                                 FloorTenths(outcome.tokensUsed, 3))
                 ELSE recs]

\* execute(request): the response, the adapter call and the new records. The
\* usage is tracked before AnalysisResult.create builds the result; what create
\* throws is caught and returned like any other failure.
AnalyzeExecute(provs, st, recs, content, outcome) ==
    IF estimateTokens(content) > TokenLimit
    THEN [ret |-> Returned(FALSE, "Content too long. Please provide shorter content."),
          call |-> <<>>, records |-> recs]
    ELSE
      LET g == simpleGenerate(provs, st, <<>>, <<>>, outcome)
      IN IF g.ret.threw
         THEN [ret |-> Returned(FALSE, g.ret.error),
               call |-> g.call, records |-> recs]
         ELSE IF ~g.ret.success
         THEN [ret |-> Returned(FALSE, g.ret.error),
               call |-> g.call, records |-> recs]
         ELSE IF ~outcome.parses
         THEN [ret |-> Returned(FALSE, "Failed to parse LLM response"),
               call |-> g.call, records |-> recs]
         ELSE [ret |-> IF outcome.spreads THEN Returned(TRUE, "")
                       ELSE Returned(FALSE, NotIterableError),
               call |-> g.call,
               records |->
                 IF outcome.tokensUsed # 0
                 THEN trackUsage(recs, getCurrentModel(st),
                                 FloorTenths(outcome.tokensUsed, 7),
                                 FloorTenths(outcome.tokensUsed, 3))
                 ELSE recs]

(* ------------------------------ AI operations -------------------------- *)
MaxCalls == 2    \* adapter calls in one behaviour

NoCall == [provider |-> "", apiKey |-> "", model |-> "",
           outcome |-> [kind |-> "", parses |-> FALSE, spreads |-> TRUE,
                        tokensUsed |-> 0]]

\* record the adapter call of a request, if it made one
Called(call) ==
    /\ Len(call) = 1 => adapterCalls < MaxCalls
    /\ adapterCalls' = adapterCalls + Len(call)
    /\ lastCall' = IF call = <<>> THEN lastCall ELSE call[1]

registerProvider(p) ==
    /\ p \notin providers
    /\ providers' = providers \cup {p}
    /\ aiOp' = [name |-> "registerProvider", spend |-> <<>>, ret |-> Returned(TRUE, "")]
    /\ UNCHANGED <<settings, adapterCalls, lastCall, records, trackerLimit>>
    /\ UNCHANGED <<qvars, evars>>

\* as if an update left the feature bindings of the service as they were
saveSettingsKeepsFeatures(st) ==
    /\ st # settings
    /\ settings' = [st EXCEPT !.featureModels = settings.featureModels]
    /\ trackerLimit' = st.budgetLimit
    /\ aiOp' = [name |-> "saveSettings", spend |-> <<>>,
                ret |-> Returned(TRUE, ""), saved |-> st]
    /\ UNCHANGED <<providers, adapterCalls, lastCall, records>>
    /\ UNCHANGED <<qvars, evars>>

\* the plugin's saveSettings(): updateAIServiceSettings and setBudgetLimit
saveSettings(st) ==
    /\ st # settings
    /\ settings' = st
    /\ trackerLimit' = st.budgetLimit
    /\ aiOp' = [name |-> "saveSettings", spend |-> <<>>,
                ret |-> Returned(TRUE, ""), saved |-> st]
    /\ UNCHANGED <<providers, adapterCalls, lastCall, records>>
    /\ UNCHANGED <<qvars, evars>>

callGenerateText(modelArg, spendArg, outcome) ==
    LET g == generateText(providers, settings, modelArg, spendArg, outcome)
    IN /\ Called(g.call)
       /\ aiOp' = [name |-> "generateText", spend |-> spendArg, ret |-> g.ret]
       /\ UNCHANGED <<providers, settings, records, trackerLimit>>
       /\ UNCHANGED <<qvars, evars>>

analyzeContent(content, outcome) ==
    LET r == AnalyzeExecute(providers, settings, records, content, outcome)
    IN /\ Called(r.call)
       /\ records' = r.records
       /\ aiOp' = [name |-> "analyze", spend |-> <<>>, ret |-> r.ret,
                   content |-> content]
       /\ UNCHANGED <<providers, settings, trackerLimit>>
       /\ UNCHANGED <<qvars, evars>>

callSimpleGenerateForFeature(feature, outcome) ==
    LET g == simpleGenerateForFeature(providers, settings, feature, outcome)
    IN /\ Called(g.call)
       /\ aiOp' = [name |-> "simpleGenerateForFeature", spend |-> <<>>,
                   ret |-> g.ret, feature |-> feature]
       /\ UNCHANGED <<providers, settings, records, trackerLimit>>
       /\ UNCHANGED <<qvars, evars>>

callSummarize ==
    /\ aiOp' = [name |-> "summarize", spend |-> <<>>, ret |-> summarize(records)]
    /\ UNCHANGED <<providers, settings, adapterCalls, lastCall, records,
                   trackerLimit>>
    /\ UNCHANGED <<qvars, evars>>

\* token counts handed to estimateCost
TokenCounts == {0, 1000000}

\* the value estimateCost returned for its arguments
Estimate(cost, inputTokens, outputTokens) ==
    [threw |-> FALSE, success |-> TRUE, error |-> "", cost |-> cost,
     inputTokens |-> inputTokens, outputTokens |-> outputTokens]

callEstimateCost(inputTokens, outputTokens) ==
    /\ aiOp' = [name |-> "estimateCost", spend |-> <<>>,
                ret |-> Estimate(estimateCost(settings, inputTokens, outputTokens),
                                 inputTokens, outputTokens)]
    /\ UNCHANGED <<providers, settings, adapterCalls, lastCall, records,
                   trackerLimit>>
    /\ UNCHANGED <<qvars, evars>>

AInit ==
    /\ providers = {}
    /\ settings = DEFAULT_SETTINGS
    /\ adapterCalls = 0
    /\ lastCall = NoCall
    /\ records = <<>>
    /\ trackerLimit = <<>>
    /\ aiOp = [name |-> "new", spend |-> <<>>, ret |-> Returned(TRUE, "")]

ANext ==
    \/ \E p \in ProviderIds : registerProvider(p)
    \/ \E st \in SettingsSet : saveSettings(st)
    \/ \E m \in ModelArgs, sp \in SpendArgs, o \in AdapterOutcomes :
          callGenerateText(m, sp, o)
    \/ \E c \in Contents, o \in AdapterOutcomes : analyzeContent(c, o)
    \/ \E i \in TokenCounts, o \in TokenCounts : callEstimateCost(i, o)
    \/ callSummarize
    \/ \E f \in FeatureTypes, o \in AdapterOutcomes :
          callSimpleGenerateForFeature(f, o)


(* ----------------------------- event emitter --------------------------- *)
MaxSubs == 3     \* subscriptions held at a time (on and once calls)
MaxOnce == 1     \* once() calls in one behaviour
MaxDepth == 1    \* depth at which a handler no longer emits again

Events == {"job:created", "queue:empty"}
Payloads == {"p1", "p2"}

\* The callbacks the components subscribe, by what they do when invoked:
\* return, throw, emit the same event again, subscribe callback 1 to the
\* event, unsubscribe callback 1 from it, remove all its listeners.
Does == <<"ok", "throw", "reemit", "sub", "unsub", "clear">>
Callbacks == DOMAIN Does

\* a member of a listener Set: the callback itself (w = 0) or the closure
\* number w that once() made around callback cb
Plain(h) == [cb |-> h, w |-> 0]
\* the place of a member deleted while the Set is being iterated
Tomb == [cb |-> 0, w |-> 0]

\* as if a new subscriber were put in front of the others
SetAddFirst(set, ent) ==
    IF \E i \in DOMAIN set : set[i] = ent THEN set ELSE <<ent>> \o set

\* Set.add: no effect when the value is a member, else appended
SetAdd(set, ent) ==
    IF \E i \in DOMAIN set : set[i] = ent THEN set ELSE Append(set, ent)

\* Set.delete
RECURSIVE SetDelete(_, _)
SetDelete(set, ent) ==
    IF set = <<>> THEN <<>>
    ELSE <<IF Head(set) = ent THEN Tomb ELSE Head(set)>>
         \o SetDelete(Tail(set), ent)

\* the members of a Set once no iteration is in progress
Compact(set) == SelectSeq(set, LAMBDA x : x # Tomb)

EvSeq == <<"job:created", "queue:empty">>

\* The emitter during a call: the Set objects, the Map from event to Set
\* (0 for no entry), the invocations and logged errors of the call, whether
\* an exception is propagating.
\* a Map without entries
NoEntries == (EvSeq[1] :> 0) @@ (EvSeq[2] :> 0)

\* the Set object number i when a call begins
SetObject(i) ==
    IF EvSeq[i] \in DOMAIN listeners THEN listeners[EvSeq[i]] ELSE <<>>

\* the Map entry of the event number i when a call begins
MapEntry(i) == IF EvSeq[i] \in DOMAIN listeners THEN i ELSE 0

EState ==
    [ sets |-> <<SetObject(1), SetObject(2)>>,
      map |-> (EvSeq[1] :> MapEntry(1)) @@ (EvSeq[2] :> MapEntry(2)),
      calls |-> <<>>, logged |-> 0, exc |-> FALSE, delivered |-> delivered ]

\* on(event, callback), lines 35-38
OnIn(st, e, ent) ==
    LET s1 == IF st.map[e] = 0
              THEN [st EXCEPT !.sets = Append(@, <<>>),
                              !.map[e] = Len(st.sets) + 1]
              ELSE st
    IN [s1 EXCEPT !.sets[s1.map[e]] = SetAdd(@, ent)]

\* off(event, callback)
OffIn(st, e, ent) ==
    IF st.map[e] = 0 THEN st
    ELSE [st EXCEPT !.sets[st.map[e]] = SetDelete(@, ent)]

\* as if the event argument were ignored
RemoveAllInEverything(st, eArg) == [st EXCEPT !.map = NoEntries]

\* removeAllListeners(event?): <<>> is no argument
RemoveAllIn(st, eArg) ==
    IF eArg # <<>>
    THEN [st EXCEPT !.map[eArg[1]] = 0]
    ELSE [st EXCEPT !.map = NoEntries]

RECURSIVE EmitIn(_, _, _, _)

\* the callback of a subscriber runs
Callback(st, ent, e, p, depth) ==
    LET s1 == [st EXCEPT
                 !.calls = Append(@, [cb |-> ent.cb, w |-> ent.w, ev |-> e,
                                      payload |-> p, depth |-> depth]),
                 !.delivered = IF ent.w = 0 THEN @
                               ELSE [@ EXCEPT ![ent.w] = @ + 1]]
        does == Does[ent.cb]
    IN CASE does = "ok" -> s1
         [] does = "throw" -> [s1 EXCEPT !.exc = TRUE]
         [] does = "reemit" ->
               IF depth < MaxDepth THEN EmitIn(s1, e, p, depth + 1) ELSE s1
         [] does = "sub" -> OnIn(s1, e, Plain(1))
         [] does = "unsub" -> OffIn(s1, e, Plain(1))
         [] does = "clear" -> RemoveAllIn(s1, <<e>>)

\* a member of the Set is called: the callback, or the closure of once(),
\* which unsubscribes itself and then calls the callback
Invoke(st, ent, e, p, depth) ==
    IF ent.w = 0 THEN Callback(st, ent, e, p, depth)
    ELSE Callback(OffIn(st, e, ent), ent, e, p, depth)

\* as if emit called the handlers without try / catch
Unguarded(st, ent, e, p, depth) == Invoke(st, ent, e, p, depth)

\* try { callback(data) } catch (error) { console.error(...) }
Guarded(st, ent, e, p, depth) ==
    LET r == Invoke(st, ent, e, p, depth)
    IN IF r.exc THEN [r EXCEPT !.exc = FALSE, !.logged = @ + 1] ELSE r

\* Set.prototype.forEach over the Set object sid, from position i: members
\* deleted before their turn are skipped, members added meanwhile are visited
RECURSIVE ForEach(_, _, _, _, _, _)
ForEach(st, sid, e, p, i, depth) ==
    IF st.exc \/ i > Len(st.sets[sid]) THEN st
    ELSE LET ent == st.sets[sid][i]
         IN IF ent = Tomb
            THEN ForEach(st, sid, e, p, i + 1, depth)
            ELSE ForEach(Guarded(st, ent, e, p, depth), sid, e, p, i + 1, depth)

\* emit(event, data)
EmitIn(st, e, p, depth) ==
    IF st.map[e] = 0 THEN st ELSE ForEach(st, st.map[e], e, p, 1, depth)

\* the Map when the call returns
ListenersOf(st) ==
    [e \in {x \in Events : st.map[x] # 0} |-> Compact(st.sets[st.map[e]])]

\* listenerCount(event)
listenerCount(l, e) == IF e \in DOMAIN l THEN Len(l[e]) ELSE 0

\* subscriptions held in the whole Map
RECURSIVE TotalSubs(_, _)
TotalSubs(l, es) ==
    IF es = {} THEN 0
    ELSE LET e == CHOOSE x \in es : TRUE
         IN listenerCount(l, e) + TotalSubs(l, es \ {e})

ECommit(st, name, e, h, p) ==
    /\ listeners' = ListenersOf(st)
    /\ calls' = st.calls
    /\ logged' = st.logged
    /\ delivered' = st.delivered
    /\ eeOp' = [name |-> name, event |-> e, cb |-> h, payload |-> p,
                threw |-> st.exc]
    /\ UNCHANGED <<qvars, avars>>

on(e, h) ==
    /\ TotalSubs(listeners, Events) < MaxSubs
    /\ ECommit(OnIn(EState, e, Plain(h)), "on", e, h, "")
    /\ UNCHANGED wrappers

off(e, h) ==
    /\ ECommit(OffIn(EState, e, Plain(h)), "off", e, h, "")
    /\ UNCHANGED wrappers

once(e, h) ==
    /\ TotalSubs(listeners, Events) < MaxSubs
    /\ wrappers < MaxOnce
    /\ wrappers' = wrappers + 1
    /\ ECommit(OnIn(EState, e, [cb |-> h, w |-> wrappers + 1]), "once", e, h, "")

emit(e, p) ==
    /\ ECommit(EmitIn(EState, e, p, 0), "emit", e, 0, p)
    /\ UNCHANGED wrappers

removeAllListeners(eArg) ==
    /\ ECommit(RemoveAllIn(EState, eArg), "removeAllListeners",
               IF eArg = <<>> THEN "" ELSE eArg[1], 0, "")
    /\ UNCHANGED wrappers

EInit ==
    /\ listeners = << >>
    /\ wrappers = 0
    /\ calls = <<>>
    /\ logged = 0
    /\ delivered = [w \in 1..MaxOnce |-> 0]
    /\ eeOp = [name |-> "new", event |-> "", cb |-> 0, payload |-> "",
               threw |-> FALSE]

ENext ==
    \/ \E e \in Events, h \in Callbacks : on(e, h)
    \/ \E e \in Events, h \in Callbacks : off(e, h)
    \/ \E e \in Events, h \in Callbacks : once(e, h)
    \/ \E e \in Events, p \in Payloads : emit(e, p)
    \/ \E eArg \in {<<>>} \cup {<<e>> : e \in Events} : removeAllListeners(eArg)

(* ---------------------------- specification ---------------------------- *)
QInit ==
    /\ queue = <<>>
    /\ running = 0
    /\ paused = FALSE
    /\ executors = {}
    /\ jobs = <<>>
    /\ inflight = {}
    /\ emitted = <<>>
    /\ hist = <<>>
    /\ seen = <<>>
    /\ op = [name |-> "new", arg |-> 0, ret |-> 0]

QNext ==
    \/ \E t \in JobTypes : registerExecutor(t)
    \/ \E t \in JobTypes, p \in PriorityArgs, th \in Throws : enqueue(t, p, th)
    \/ \E j \in inflight, p \in ProgressValues : onProgress(j, p)
    \/ \E j \in inflight, th \in Throws : executorResolves(j, th)
    \/ \E j \in inflight, m \in Msgs, th \in Throws : executorRejects(j, m, th)
    \/ \E id \in 1..(Len(jobs) + 1) : cancel(id)
    \/ pause
    \/ \E th \in Throws : resume(th)
    \/ clear

vars == <<qvars, avars, evars>>

Init == QInit /\ AInit /\ EInit

\* the scheduler, the facade left as constructed
Next == QNext

Spec == Init /\ [][Next]_vars

\* the facade, its callers and the cost tracker, the scheduler left idle
\* Three jobs of one type with priorities 1, 3 and 5 (the default), whose
\* executor returns a promise that fulfils or rejects; no cancellation.
MaxOrderJobs == 3
OrderPriorityArgs == {<<>>, <<1>>, <<3>>}

NextOrder ==
    \/ registerExecutor("analyze-content")
    \/ \E a \in OrderPriorityArgs :
          enqueueWithin(MaxOrderJobs, "analyze-content", a, <<>>)
    \/ \E j \in DOMAIN jobs : executorResolves(j, <<>>)
    \/ \E j \in DOMAIN jobs : executorRejects(j, "boom", <<>>)
    \/ pause
    \/ resume(<<>>)

SpecOrder == Init /\ [][NextOrder]_vars

\* Jobs of one type with the default priority, enqueued once the executor of
\* the type is registered, which returns a promise; the client may have a
\* handler subscribed that calls back into the scheduler when it clears the
\* queue.
NextReentrant ==
    \/ registerExecutor("analyze-content")
    \/ "analyze-content" \in executors /\ enqueue("analyze-content", <<>>, <<>>)
    \/ \E j \in inflight : executorResolves(j, <<>>)
    \/ \E j \in inflight : executorRejects(j, "boom", <<>>)
    \/ \E id \in DOMAIN jobs : cancel(id)
    \/ pause
    \/ resume(<<>>)
    \/ clear
    \/ clearResuming

SpecReentrant == Init /\ [][NextReentrant]_vars

\* An executor promise settles: the steps executorResolves(j, <<>>) and
\* executorRejects(j, "boom", <<>>), with the state the continuation of
\* processNext leaves bound before it is written back.
Settle ==
    \E j \in inflight :
       \/ /\ Budgeted(0)
          /\ \E t \in {processNext([OnResolved([QState EXCEPT !.inflight = @ \ {j}], j)
                                       EXCEPT !.running = 0], <<>>)} :
                Commit(t, "resolve", j, 0)
          /\ UNCHANGED executors
       \/ /\ Budgeted(1)
          /\ \E t \in {processNext([OnRejected([QState EXCEPT !.inflight = @ \ {j}],
                                                 j, "boom")
                                       EXCEPT !.running = 0], <<>>)} :
                Commit(t, "reject", j, "boom")
          /\ UNCHANGED executors

\* The client resumes a paused queue: the step resume(<<>>), written in the
\* same way.
Unpause ==
    /\ paused
    /\ \E t \in {processNext(Emit([QState EXCEPT !.paused = FALSE],
                                   "queue:resumed", 0), <<>>)} :
          Commit(t, "resume", 0, 0)
    /\ UNCHANGED executors

\* The runs in which every executor call settles and the queue is not left
\* paused for ever; the number of jobs is bounded by MaxJobs.
LiveReentrant ==
    SpecReentrant /\ WF_vars(Settle) /\ WF_vars(Unpause)

NextAI == ANext

SpecAI == Init /\ [][NextAI]_vars

\* the event emitter with its subscribers, the rest left as constructed
NextEE == ENext

SpecEE == Init /\ [][NextEE]_vars

(* ------------------------- scheduler properties ------------------------ *)
Ids == DOMAIN jobs

StartedCount(h) == Len(SelectSeq(h, LAMBDA e : e = "job:started"))

EventCount(seq, ev, j) ==
    Len(SelectSeq(seq, LAMBDA e : e.ev = ev /\ e.job = j))

\* job j failed because its retries ran out (not for a missing executor)
Exhausted(j) ==
    jobs[j].status = "failed" /\ jobs[j].error # NoExecutorErrorFor(jobs[j].type)

\* a strictly earlier in the dispatch order than b
Before(js, a, b) ==
    \/ js[a].priority < js[b].priority
    \/ js[a].priority = js[b].priority /\ a < b

\* the executor of job j is invoked in this step
StartsNow(j) ==
    StartedCount(hist'[j]) > (IF j \in Ids THEN StartedCount(hist[j]) ELSE 0)

\* C1: in every reachable state at most one job has status 'running' and at
\* most one executor invocation is in flight.
C1_SingleConcurrency ==
    /\ Cardinality({j \in Ids : jobs[j].status = "running"}) <= 1
    /\ Cardinality(inflight) <= 1

\* a job was enqueued while another one was running, the queue not paused
C1_Witness ==
    /\ op.name = "enqueue"
    /\ ~paused
    /\ running # 0 /\ running # op.ret
    /\ jobs[op.ret].status = "pending"
    /\ inflight = {running}

C4_RetryCountBound ==
    \A j \in Ids : Exhausted(j) => jobs[j].retryCount <= jobs[j].maxRetries

\* the step that marks a job failed after its last attempt
C4_Witness ==
    \E j \in Ids :
        /\ Exhausted(j)
        /\ op.name \in {"reject", "enqueue", "resume", "resolve"}
        /\ EventCount(emitted, "job:failed", j) = 1

\* job j waits for its re-run: it failed and was put back in the list
Retrying(j) ==
    j \in Ids /\ jobs[j].status = "pending" /\ jobs[j].retryCount > 0

C9_CancelPending ==
    [][ /\ \A j \in Ids :
              (op'.name = "cancel" /\ op'.arg = j /\ IndexOfId(queue, j) # 0) =>
                  /\ op'.ret = TRUE
                  /\ IndexOfId(queue', j) = 0
                  /\ Len(queue') = Len(queue) - 1
                  /\ jobs'[j].status = "cancelled"
                  /\ emitted' = <<[ev |-> "job:cancelled", job |-> j]>>
        /\ \A j \in Ids : jobs[j].status = "cancelled" =>
              /\ jobs'[j] = jobs[j]
              /\ IndexOfId(queue', j) = 0
              /\ running' # j /\ j \notin inflight'
              /\ ~StartsNow(j)
      ]_vars

\* a pending job has just been cancelled
C9_Witness ==
    /\ op.name = "cancel" /\ op.ret = TRUE
    /\ jobs[op.arg].status = "cancelled"

\* C10: cancel with the id of the running job, of a terminal job or of no job
\* returns false, emits nothing and changes nothing.
C10_CancelNoEffect ==
    [][ \A id \in 1..(Len(jobs) + 1) :
          ( /\ op'.name = "cancel" /\ op'.arg = id
            /\ \/ id = running
               \/ id \notin Ids
               \/ isTerminal(jobs[id]) ) =>
              /\ op'.ret = FALSE
              /\ emitted' = <<>>
              /\ UNCHANGED <<queue, running, paused, jobs, inflight, hist>>
      ]_vars

\* cancel was called with the id of the running job while another job waits
C10_Witness ==
    /\ op.name = "cancel" /\ op.ret = FALSE
    /\ op.arg = running
    /\ queue # <<>>
    /\ jobs[running].status = "running"

\* C11 as stated: a job for which job:started has been emitted is never
\* cancelled afterwards: cancel never returns true for it and it never gets
\* status 'cancelled'.
C11_AsStated ==
    [][ \A j \in Ids : StartedCount(hist[j]) > 0 =>
            /\ jobs'[j].status # "cancelled"
            /\ ~(op'.name = "cancel" /\ op'.arg = j /\ op'.ret = TRUE) ]_vars

\* C11 amended: only a job in the pending list is cancelled.  The running job
\* is never cancelled, but a job that was started, failed with retries left
\* and was put back in the pending list is cancelled like any pending job.
C11_CancelOnlyPending ==
    [][ \A j \in Ids :
          /\ ( \/ jobs'[j].status = "cancelled" /\ jobs[j].status # "cancelled"
               \/ op'.name = "cancel" /\ op'.arg = j /\ op'.ret = TRUE ) =>
                /\ jobs[j].status = "pending"
                /\ IndexOfId(queue, j) # 0
                /\ running # j /\ j \notin inflight
                /\ op'.name \in {"cancel", "clear"}
                /\ jobs'[j].status = "cancelled"
                /\ StartedCount(hist[j]) = jobs[j].retryCount
                /\ jobs[j].retryCount < jobs[j].maxRetries
          /\ (jobs[j].status = "running" \/ running = j) =>
                jobs'[j].status # "cancelled"
      ]_vars

\* cancel returned true for a job that had been started and re-queued
C11_Witness ==
    /\ op.name = "cancel" /\ op.ret = TRUE
    /\ op.arg \in Ids
    /\ StartedCount(hist[op.arg]) > 0
    /\ jobs[op.arg].status = "cancelled"

\* job j is marked failed for a missing executor in this step
FailsForNoExecutor(j) ==
    /\ jobs'[j].status = "failed"
    /\ jobs'[j].error = NoExecutorErrorFor(jobs'[j].type)
    /\ j \in Ids => jobs[j].status = "pending"

\* position of the first event ev of job j in seq, 0 when there is none
EventIndex(seq, ev, j) ==
    LET idx == {i \in 1..Len(seq) : seq[i] = [ev |-> ev, job |-> j]}
    IN IF idx = {} THEN 0 ELSE CHOOSE i \in idx : \A k \in idx : i <= k

\* the step runs the dispatch loop with the list as it is and nothing running
DispatchesHead ==
    \/ op'.name = "resume" /\ running = 0
    \/ op'.name = "resolve" /\ ~paused

\* C12: when the dispatch reaches a job whose type has no registered
\* executor, the job is marked failed with an error naming its type, its
\* retryCount is not incremented, it is not re-queued, job:failed is emitted
\* for it without a job:started, the running slot is cleared and the dispatch
\* goes on with the next pending job in the same step.
C12_MissingExecutor ==
    [][ /\ (DispatchesHead /\ queue # <<>>
              /\ jobs[Head(queue)].type \notin executors) =>
                FailsForNoExecutor(Head(queue))
        /\ (op'.name = "enqueue" /\ Len(jobs') > Len(jobs) /\ ~paused
              /\ running = 0 /\ jobs'[op'.ret].type \notin executors) =>
                FailsForNoExecutor(op'.ret)
        /\ \A j \in DOMAIN jobs' : FailsForNoExecutor(j) =>
              /\ jobs'[j].type \notin executors
              /\ jobs'[j].retryCount = 0
              /\ ~jobs'[j].startedAt
              /\ hist'[j] = <<"job:created", "job:failed">>
              /\ EventCount(emitted', "job:failed", j) = 1
              /\ IndexOfId(queue', j) = 0
              /\ running' # j /\ j \notin inflight'
              \* the loop went on: it started a job or found the list empty
              /\ ~paused'
              /\ running' # 0 \/ queue' = <<>>
              /\ EventIndex(emitted', "job:failed", j) < Len(emitted')
              /\ running' # 0 =>
                    EventIndex(emitted', "job:failed", j)
                        < EventIndex(emitted', "job:started", running')
        /\ \A j \in Ids :
              (jobs[j].status = "failed"
                 /\ jobs[j].error = NoExecutorErrorFor(jobs[j].type)) =>
                    jobs'[j] = jobs[j] /\ hist'[j] = hist[j]
      ]_vars

\* resume found a job without an executor at the head, failed it and started
\* the next pending job in the same call
C12_Witness ==
    /\ op.name = "resume"
    /\ running # 0
    /\ \E j \in Ids \ {running} :
          /\ jobs[j].status = "failed"
          /\ jobs[j].error = NoExecutorErrorFor(jobs[j].type)
          /\ emitted = << [ev |-> "queue:resumed", job |-> 0],
                          [ev |-> "job:failed", job |-> j],
                          [ev |-> "job:started", job |-> running] >>

TerminalEvents == {"job:completed", "job:failed", "job:cancelled"}

\* the parts of the order that C13 and its amendment share: job:created is
\* the first event and occurs once, progress comes after a job:started, at
\* most one of completed / failed / cancelled occurs and it is the last event
OrderedEvents(h) ==
    /\ h # <<>> /\ h[1] = "job:created"
    /\ \A i \in 2..Len(h) : h[i] # "job:created"
    /\ \A i \in 1..Len(h) : h[i] = "job:progress" =>
          \E k \in 1..(i - 1) : h[k] = "job:started"
    /\ \A i \in 1..Len(h) : h[i] \in TerminalEvents => i = Len(h)

QuietEvents == {"job:created", "job:cancelled"}

RetriesBefore(j) == IF j \in Ids THEN jobs[j].retryCount ELSE 0

\* an attempt of job j failed in this step (each failure counts a retry)
FailsNow(j) == jobs'[j].retryCount > RetriesBefore(j)

\* the events of job j among those of the step
EventsOf(seq, j) == SelectSeq(seq, LAMBDA e : e.job = j)

\* C15 as stated: every executor failure becomes a state transition of the
\* job together with an emitted event for that job, and enqueue returns the
\* created job.
C15_AsStated ==
    [][ /\ \A j \in DOMAIN jobs' : FailsNow(j) =>
              /\ jobs'[j].status \in {"pending", "running", "failed"}
              /\ EventsOf(emitted', j) # <<>>
        /\ op'.name = "enqueue" =>
              Len(jobs') = Len(jobs) + 1 /\ op'.ret = Len(jobs')
      ]_vars

\* C15 amended: every executor failure (rejection or synchronous throw) is
\* counted and becomes a state transition of the job: to 'failed' with one
\* job:failed, or back to 'pending'; a job put back is started again in the
\* same step (job:started) unless the queue is paused, and then the failure
\* emits no event for the job.  enqueue returns the created job.
C15_FailureContained ==
    [][ /\ op'.name = "reject" => FailsNow(op'.arg)
        /\ \A j \in DOMAIN jobs' : FailsNow(j) =>
              /\ op'.name \in {"reject", "enqueue", "resume", "resolve"}
              /\ \/ /\ jobs'[j].status = "failed"
                     /\ jobs'[j].error \in Msgs \cup {SyncMsg}
                     /\ EventCount(emitted', "job:failed", j) = 1
                     /\ running' # j /\ IndexOfId(queue', j) = 0
                  \/ /\ jobs'[j].status = "running"
                     /\ running' = j /\ inflight' = {j}
                     /\ emitted'[Len(emitted')] = [ev |-> "job:started", job |-> j]
                  \/ /\ jobs'[j].status = "pending"
                     /\ paused'
                     /\ Head(queue') = j /\ running' = 0
                     /\ EventsOf(emitted', j) = <<>>
        /\ op'.name = "enqueue" =>
              /\ Len(jobs') = Len(jobs) + 1
              /\ op'.ret = Len(jobs')
              /\ hist'[op'.ret][1] = "job:created"
      ]_vars

\* the executor of a job threw synchronously inside the enqueue call that
\* created it; enqueue returned the job, which is running its second attempt
C15_Witness ==
    /\ op.name = "enqueue"
    /\ op.ret = Len(jobs)
    /\ jobs[op.ret].retryCount = 1
    /\ jobs[op.ret].status = "running"

\* job j is marked failed in this step because its retries ran out
ExhaustsNow(j) ==
    /\ jobs'[j].status = "failed"
    /\ jobs'[j].error # NoExecutorErrorFor(jobs'[j].type)
    /\ j \in Ids => jobs[j].status # "failed"

\* the message of the last failure of job j in a step that fails it: the
\* rejection that the step handles if it is the only failure of j in the
\* step, a synchronous throw of a later attempt otherwise
LastFailureMessage(j) ==
    IF op'.name = "reject" /\ op'.arg = j
          /\ jobs'[j].retryCount = RetriesBefore(j) + 1
    THEN op'.ret
    ELSE SyncMsg

\* C16: when a job is marked failed after its last failed attempt, its error
\* is the message of the last failure, completedAt is set, job:failed is
\* emitted exactly once for it, and it is neither in the pending list nor
\* dispatched again afterwards.
C16_FinalFailure ==
    [][ /\ \A j \in DOMAIN jobs' : ExhaustsNow(j) =>
              /\ FailsNow(j)
              /\ jobs'[j].error = LastFailureMessage(j)
              /\ jobs'[j].completedAt
              /\ EventCount(emitted', "job:failed", j) = 1
              /\ Len(SelectSeq(hist'[j], LAMBDA e : e = "job:failed")) = 1
              /\ IndexOfId(queue', j) = 0
              /\ running' # j /\ j \notin inflight'
        /\ \A j \in Ids : Exhausted(j) =>
              /\ jobs'[j] = jobs[j]
              /\ hist'[j] = hist[j]
              /\ IndexOfId(queue', j) = 0
              /\ running' # j /\ j \notin inflight'
      ]_vars

\* a job was rejected with 'boom', re-run in the same step, threw
\* synchronously and ran out of retries: its error is the later message
C16_Witness ==
    /\ op.name = "reject" /\ op.ret = "boom"
    /\ Exhausted(op.arg)
    /\ jobs[op.arg].error = SyncMsg
    /\ jobs[op.arg].completedAt
    /\ EventCount(emitted, "job:failed", op.arg) = 1

\* C17: while the queue is paused no job goes from pending to running and no
\* executor is invoked, whatever is enqueued or settles; pause leaves the
\* running job alone, and that job still completes, fails or is re-queued.
C17_PausedNoDispatch ==
    [][ /\ paused' =>
              /\ \A j \in DOMAIN jobs' :
                    /\ ~StartsNow(j)
                    /\ jobs'[j].status = "running" =>
                          j \in Ids /\ jobs[j].status = "running"
              /\ inflight' \subseteq inflight
              /\ running' \in {0, running}
        /\ op'.name = "pause" =>
              /\ paused'
              /\ emitted' = <<[ev |-> "queue:paused", job |-> 0]>>
              /\ UNCHANGED <<queue, running, jobs, inflight, hist>>
        /\ (paused /\ paused' /\ op'.name = "resolve") =>
              /\ jobs'[op'.arg].status = "completed"
              /\ running' = 0 /\ inflight' = {}
              /\ queue' = queue
        /\ (paused /\ paused' /\ op'.name = "reject") =>
              /\ running' = 0 /\ inflight' = {}
              /\ \/ jobs'[op'.arg].status = "failed" /\ queue' = queue
                 \/ jobs'[op'.arg].status = "pending"
                       /\ queue' = <<op'.arg>> \o queue
      ]_vars

\* the running job completed while the queue was paused; a pending job whose
\* type has an executor stays pending and nothing runs
C17_Witness ==
    /\ paused
    /\ op.name = "resolve"
    /\ jobs[op.arg].status = "completed"
    /\ running = 0 /\ inflight = {}
    /\ queue # <<>>
    /\ jobs[Head(queue)].status = "pending"
    /\ jobs[Head(queue)].type \in executors
    /\ jobs[Head(queue)].retryCount = 0

Resumed == [ev |-> "queue:resumed", job |-> 0]

\* C18 as stated: resume clears the flag, emits queue:resumed and, if the
\* list is non-empty and nothing runs, the head job is running when resume
\* returns, its job:started emitted after queue:resumed; if a job is running
\* no second job is started.
C18_AsStated ==
    [][ op'.name = "resume" =>
          /\ ~paused'
          /\ emitted'[1] = Resumed
          /\ (running = 0 /\ queue # <<>>) =>
                /\ jobs'[Head(queue)].status = "running"
                /\ running' = Head(queue)
                /\ EventIndex(emitted', "job:started", Head(queue)) > 1
          /\ running # 0 => \A j \in Ids : ~StartsNow(j)
      ]_vars

\* C18 amended: resume clears the flag, emits queue:resumed and runs the
\* dispatch loop in the same call.  If the list is non-empty and nothing
\* runs, the head job is dispatched: it is running when resume returns, its
\* job:started emitted after queue:resumed, unless its type has no executor
\* (it is failed at once) or its executor throws synchronously until its
\* retries run out (it is failed); then the loop goes on with the next job,
\* until a job runs or the list is empty.  If a job is running, resume starts
\* nothing.
C18_ResumeDispatches ==
    [][ op'.name = "resume" =>
          /\ ~paused'
          /\ emitted'[1] = Resumed
          /\ running # 0 =>
                /\ emitted' = <<Resumed>>
                /\ UNCHANGED <<queue, running, jobs, inflight, hist>>
          /\ (running = 0 /\ queue = <<>>) =>
                /\ emitted' = <<Resumed, [ev |-> "queue:empty", job |-> 0]>>
                /\ UNCHANGED <<queue, running, jobs, inflight, hist>>
          /\ (running = 0 /\ queue # <<>>) =>
                LET h == Head(queue)
                IN /\ jobs'[h].status \in {"running", "failed"}
                   /\ jobs[h].type \notin executors => FailsForNoExecutor(h)
                   /\ jobs[h].type \in executors =>
                         /\ StartsNow(h)
                         /\ EventIndex(emitted', "job:started", h) = 2
                         /\ jobs'[h].status = "failed" =>
                               FailsNow(h) /\ jobs'[h].error = SyncMsg
                   /\ jobs'[h].status = "running" =>
                         running' = h /\ inflight' = {h}
                   /\ running' # 0 \/ queue' = <<>>
      ]_vars

\* resume found a pending job with an executor and nothing running, and
\* started it
C18_Witness ==
    /\ op.name = "resume"
    /\ running # 0
    /\ jobs[running].status = "running"
    /\ emitted = <<Resumed, [ev |-> "job:started", job |-> running]>>
    /\ queue # <<>>

QueueEmpty == [ev |-> "queue:empty", job |-> 0]

\* the calls that run the dispatch loop
DispatchCalls == {"enqueue", "resume", "resolve", "reject"}

\* C20: queue:empty is emitted only when the pending list is empty and no
\* job is running, and every dispatch attempt that finds that state emits it,
\* in particular the one after the last job was completed, failed or refused
\* for a missing executor.
C20_QueueEmpty ==
    [][ /\ \A i \in 1..Len(emitted') : emitted'[i] = QueueEmpty =>
              /\ i = Len(emitted')
              /\ op'.name \in DispatchCalls
              /\ queue' = <<>> /\ running' = 0 /\ inflight' = {}
              /\ \A j \in DOMAIN jobs' : jobs'[j].status \notin {"pending", "running"}
        /\ (op'.name \in DispatchCalls /\ queue' = <<>> /\ running' = 0) =>
              /\ emitted' # <<>>
              /\ emitted'[Len(emitted')] = QueueEmpty
        /\ \A j \in DOMAIN jobs' :
              ( /\ jobs'[j].status \in {"completed", "failed"}
                /\ j \in Ids => jobs[j].status \in {"pending", "running"}
                /\ queue' = <<>> /\ running' = 0 ) =>
                  \E i \in 1..(Len(emitted') - 1) :
                      /\ emitted'[i].job = j
                      /\ emitted'[i].ev \in {"job:completed", "job:failed"}
                      /\ emitted'[Len(emitted')] = QueueEmpty
      ]_vars

\* the last job completed with nothing left pending, and queue:empty followed
\* its job:completed
C20_Witness ==
    /\ op.name = "resolve"
    /\ Len(jobs) = 2
    /\ queue = <<>> /\ running = 0
    /\ emitted = <<[ev |-> "job:completed", job |-> op.arg], QueueEmpty>>

C22_ProgressMonotone ==
    [][ \A j \in Ids :
          (jobs[j].status = "running" /\ jobs'[j].status = "running") =>
              jobs'[j].progress >= jobs[j].progress ]_vars

(* --------------------------- facade properties ------------------------- *)
\* a budget limit is configured (0 and undefined mean none)
LimitConfigured(st) == st.budgetLimit # <<>> /\ st.budgetLimit # <<0>>

\* generateText is called on a registered provider that has an API key
Usable == settings.provider \in providers /\ getCurrentApiKey(settings) # ""

\* C6: with a registered provider and a key, a configured limit L and a
\* supplied currentSpend, generateText throws the budget error without calling
\* an adapter when currentSpend >= L, and calls the adapter exactly once and
\* returns its response when currentSpend < L.
C6_BudgetGate ==
    [][ ( /\ aiOp'.name = "generateText"
          /\ Usable
          /\ LimitConfigured(settings)
          /\ aiOp'.spend # <<>> ) =>
            /\ aiOp'.spend[1] >= settings.budgetLimit[1] =>
                  /\ aiOp'.ret = Thrown("Budget limit exceeded")
                  /\ adapterCalls' = adapterCalls
                  /\ lastCall' = lastCall
            /\ aiOp'.spend[1] < settings.budgetLimit[1] =>
                  /\ adapterCalls' = adapterCalls + 1
                  /\ lastCall'.provider = settings.provider
                  /\ aiOp'.ret = ResponseOf(lastCall'.outcome)
      ]_vars

\* generateText was refused with currentSpend equal to the limit of 1.00
C6_Witness ==
    /\ aiOp.name = "generateText"
    /\ aiOp.ret = Thrown("Budget limit exceeded")
    /\ aiOp.spend = <<100000000>>
    /\ settings.budgetLimit = <<100000000>>
    /\ Usable

\* C7: once the spend recorded by the cost tracker has reached the configured
\* budget limit, no request of a use case reaches a provider adapter.
C7_EveryRequestGated ==
    [][ ( /\ LimitConfigured(settings)
          /\ getCurrentSpend(records) >= settings.budgetLimit[1]
          /\ aiOp'.name = "analyze" ) => adapterCalls' = adapterCalls ]_vars

\* C8: generateText returns 'No provider selected' when the selected provider
\* is not registered and 'No API key configured' when it has no key; it does
\* not throw and calls no adapter.
C8_ConfigErrors ==
    [][ aiOp'.name = "generateText" =>
          /\ settings.provider \notin providers =>
                /\ aiOp'.ret = Returned(FALSE, "No provider selected")
                /\ adapterCalls' = adapterCalls /\ lastCall' = lastCall
          /\ (settings.provider \in providers /\ getCurrentApiKey(settings) = "") =>
                /\ aiOp'.ret = Returned(FALSE, "No API key configured")
                /\ adapterCalls' = adapterCalls /\ lastCall' = lastCall
      ]_vars

\* generateText was called while the selected provider was not registered
\* although another provider was
C8_Witness ==
    /\ aiOp.name = "generateText"
    /\ aiOp.ret = Returned(FALSE, "No provider selected")
    /\ settings.provider \notin providers
    /\ providers # {}

\* the currently selected model is in the rate table
ModelRated == getModelConfigById(getCurrentModel(settings)) # {}

\* the cost of the token counts at the rates of the selected model
RatedCost(inputTokens, outputTokens) ==
    LET rates == MODEL_CONFIGS[CHOOSE k \in getModelConfigById(
                                   getCurrentModel(settings)) : TRUE]
    IN inputTokens * rates.inputCostPer1M
       + outputTokens * rates.outputCostPer1M

\* C27: estimateCost returns the cost of its token counts at the rates of the
\* currently selected model whenever that model is in the rate table, and it
\* changes no state and records no usage.
C27_EstimateCost ==
    [][ aiOp'.name = "estimateCost" =>
          /\ ModelRated =>
                aiOp'.ret.cost = RatedCost(aiOp'.ret.inputTokens,
                                           aiOp'.ret.outputTokens)
          /\ UNCHANGED <<providers, settings, adapterCalls, lastCall, records,
                         trackerLimit>> ]_vars

\* the sum of the costs of the usage records, each computed from its model
\* and token counts at the rates of the rate table
RECURSIVE ComputedCosts(_)
ComputedCosts(recs) ==
    IF recs = <<>> THEN 0
    ELSE LET keys == getModelConfigById(Head(recs).model)
             cost == IF keys = {} THEN 0
                     ELSE calculateCost(CHOOSE k \in keys : TRUE,
                                        Head(recs).inputTokens,
                                        Head(recs).outputTokens)
         IN cost + ComputedCosts(Tail(recs))

C29_ValidationError ==
    [][ ( /\ aiOp'.name = "analyze"
          /\ estimateTokens(aiOp'.content) > TokenLimit ) =>
            /\ aiOp'.ret = Returned(FALSE,
                              "Content too long. Please provide shorter content.")
            /\ adapterCalls' = adapterCalls
            /\ lastCall' = lastCall
            /\ records' = records ]_vars

\* a text of 100001 estimated tokens was refused although a provider with a
\* key was ready to be called
C29_Witness ==
    /\ aiOp.name = "analyze"
    /\ estimateTokens(aiOp.content) = TokenLimit + 1
    /\ ~aiOp.ret.success
    /\ Usable
    /\ adapterCalls < MaxCalls

\* the pair the settings st bind to the feature f: its entry in featureModels,
\* or else the selected provider with the model selected for it
PairFor(st, f) ==
    IF st.featureModels[f] # <<>> THEN st.featureModels[f][1]
    ELSE [provider |-> st.provider, model |-> st.models[st.provider]]

C33_ZeroIsUnlimited ==
    [][ ( /\ aiOp'.name = "generateText"
          /\ Usable
          /\ ~LimitConfigured(settings) ) =>
            /\ aiOp'.ret # Thrown("Budget limit exceeded")
            /\ adapterCalls' = adapterCalls + 1
            /\ lastCall'.provider = settings.provider
            /\ aiOp'.ret = ResponseOf(lastCall'.outcome)
      ]_vars

\* with the limit 0, a request with currentSpend 0 was answered by the adapter
C33_Witness ==
    /\ aiOp.name = "generateText"
    /\ settings.budgetLimit = <<0>>
    /\ aiOp.spend = <<0>>
    /\ Usable
    /\ adapterCalls > 0
    /\ lastCall.outcome.kind = "ok"
    /\ aiOp.ret = Returned(TRUE, "")

\* C38: execute never throws: a failed or throwing adapter call, like every
\* other error of the AI service, comes back as {success: false, error}; and
\* a call of execute that returns success: false has added no usage record.
C38_FailureReturned ==
    [][ aiOp'.name = "analyze" =>
          /\ ~aiOp'.ret.threw
          /\ ( adapterCalls' # adapterCalls /\ lastCall'.outcome.kind # "ok" ) =>
                ~aiOp'.ret.success /\ aiOp'.ret.error # ""
          /\ ~aiOp'.ret.success => records' = records ]_vars

(* -------------------------- emitter properties ------------------------- *)
\* the Set of event e before the call, empty when the Map has no entry
SetOf(e) == IF e \in DOMAIN listeners THEN listeners[e] ELSE <<>>

\* no subscriber of the Set alters the subscriptions during a delivery
Stable(set) ==
    \A i \in DOMAIN set : Does[set[i].cb] \notin {"sub", "unsub", "clear"}

\* the invocation c is an invocation of the member ent
IsCallOf(c, ent) == c.cb = ent.cb /\ c.w = ent.w

\* position of the first invocation of ent in the log, 0 when there is none
FirstCall(log, ent) ==
    LET idx == {n \in DOMAIN log : IsCallOf(log[n], ent)}
    IN IF idx = {} THEN 0 ELSE CHOOSE n \in idx : \A k \in idx : n <= k

\* C23: emit isolates handler failures: when a handler throws, the error is
\* logged, every handler subscribed after it is still invoked with the same
\* payload, and emit returns normally.
C23_HandlerIsolation ==
    [][ eeOp'.name = "emit" =>
          LET set == SetOf(eeOp'.event)
          IN /\ ~eeOp'.threw
             /\ logged' = Len(SelectSeq(calls', LAMBDA c : Does[c.cb] = "throw"))
             /\ Stable(set) =>
                   \A i, k \in DOMAIN set :
                       (i < k /\ Does[set[i].cb] = "throw") =>
                           /\ FirstCall(calls', set[i]) # 0
                           /\ \E n \in DOMAIN calls' :
                                 /\ n > FirstCall(calls', set[i])
                                 /\ IsCallOf(calls'[n], set[k])
                                 /\ calls'[n].payload = eeOp'.payload
                                 /\ calls'[n].ev = eeOp'.event
      ]_vars

\* the first subscriber threw, the second was invoked after it and emit
\* returned
C23_Witness ==
    /\ eeOp.name = "emit" /\ ~eeOp.threw
    /\ logged = 1
    /\ Len(calls) = 2
    /\ Does[calls[1].cb] = "throw"
    /\ Does[calls[2].cb] = "ok"
    /\ calls[2].payload = eeOp.payload

\* C24: emit(e, payload) invokes the handlers subscribed to e, within the
\* call, in the order in which they subscribed, and no handler of another
\* event; when it returns every one of them has been invoked.
C24_DeliveryOrder ==
    [][ /\ eeOp'.name = "emit" =>
              LET set == SetOf(eeOp'.event)
              IN /\ \A n \in DOMAIN calls' :
                       calls'[n].ev = eeOp'.event /\ calls'[n].payload = eeOp'.payload
                 /\ Stable(set) =>
                       /\ \A n \in DOMAIN calls' :
                             \E i \in DOMAIN set : IsCallOf(calls'[n], set[i])
                       /\ \A i \in DOMAIN set : FirstCall(calls', set[i]) # 0
                       /\ \A i, k \in DOMAIN set : i < k =>
                             FirstCall(calls', set[i]) < FirstCall(calls', set[k])
                       /\ (\A i \in DOMAIN set : Does[set[i].cb] # "reemit") =>
                             /\ Len(calls') = Len(set)
                             /\ \A i \in DOMAIN set : IsCallOf(calls'[i], set[i])
                 /\ \A x \in Events \ {eeOp'.event} :
                       /\ x \in DOMAIN listeners' <=> x \in DOMAIN listeners
                       /\ x \in DOMAIN listeners => listeners'[x] = listeners[x]
        \* a new subscriber comes after those already subscribed
        /\ eeOp'.name \in {"on", "once"} =>
              LET set == SetOf(eeOp'.event)
              IN /\ SubSeq(listeners'[eeOp'.event], 1, Len(set)) = set
                 /\ Len(listeners'[eeOp'.event]) <= Len(set) + 1
                 /\ \E i \in DOMAIN listeners'[eeOp'.event] :
                       listeners'[eeOp'.event][i].cb = eeOp'.cb
        /\ eeOp'.name # "emit" => calls' = <<>>
      ]_vars

\* two handlers of the event were invoked in the order they subscribed,
\* which is not the order of their numbers
C24_Witness ==
    /\ eeOp.name = "emit"
    /\ eeOp.event \in DOMAIN listeners
    /\ listeners[eeOp.event] = <<Plain(2), Plain(1)>>
    /\ Len(calls) = 2
    /\ calls[1].cb = 2 /\ calls[2].cb = 1

\* the closure number w of once() is a member of some Set of the Map
Subscribed(w) ==
    \E e \in DOMAIN listeners : \E i \in DOMAIN listeners[e] : listeners[e][i].w = w

\* C25: a handler registered with once(e, h) is invoked at most once over
\* any sequence of emit calls, also when h emits e again from inside and when
\* h throws; after its first delivery it is no longer subscribed.
C25_OnceAtMostOnce ==
    \A w \in 1..MaxOnce :
        /\ delivered[w] <= 1
        /\ delivered[w] = 1 => ~Subscribed(w)
        /\ w > wrappers => delivered[w] = 0 /\ ~Subscribed(w)
        /\ Len(SelectSeq(calls, LAMBDA c : c.w = w)) <= delivered[w]

\* C26: removeAllListeners(e) removes every handler of e and leaves the
\* handlers of the other events as they are; without argument it removes the
\* handlers of all events; an emit on a cleared event invokes no handler.
C26_RemoveAll ==
    [][ /\ (eeOp'.name = "removeAllListeners" /\ eeOp'.event # "") =>
              /\ listenerCount(listeners', eeOp'.event) = 0
              /\ \A x \in Events \ {eeOp'.event} :
                    /\ x \in DOMAIN listeners' <=> x \in DOMAIN listeners
                    /\ x \in DOMAIN listeners => listeners'[x] = listeners[x]
        /\ (eeOp'.name = "removeAllListeners" /\ eeOp'.event = "") =>
              \A x \in Events : listenerCount(listeners', x) = 0
        /\ ( /\ eeOp.name = "removeAllListeners"
             /\ eeOp'.name = "emit"
             /\ eeOp.event \in {"", eeOp'.event} ) =>
                calls' = <<>> /\ listeners' = listeners
      ]_vars

\* the handlers of one event were removed, among them a once() handler that
\* was never delivered, while the other event keeps its subscriber
C26_Witness ==
    /\ eeOp.name = "removeAllListeners"
    /\ eeOp.event # ""
    /\ wrappers = 1 /\ delivered[1] = 0 /\ ~Subscribed(1)
    /\ \E x \in DOMAIN listeners : x # eeOp.event /\ Len(listeners[x]) = 1

(* ------------------------ scheduler behaviour -------------------------- *)
\* the message of BudgetExceededError
BudgetMsg == "Budget limit exceeded"

\* C31: a budget-exceeded rejection of an executor is treated like any other
\* failure: it counts a retry, the job is put back at the front and run again
\* while it has retries left, and it is marked failed, with the budget message,
\* only when its retries are used up.
C31_BudgetFailureRetried ==
    [][ (op'.name = "reject" /\ op'.ret = BudgetMsg) =>
          LET j == op'.arg
          IN /\ jobs'[j].retryCount > jobs[j].retryCount
             /\ jobs[j].retryCount + 1 < jobs[j].maxRetries =>
                   IF paused
                   THEN /\ jobs'[j].status = "pending"
                        /\ jobs'[j].retryCount = jobs[j].retryCount + 1
                        /\ Head(queue') = j
                   ELSE StartedCount(hist'[j]) > StartedCount(hist[j])
             /\ jobs[j].retryCount + 1 = jobs[j].maxRetries =>
                   /\ jobs'[j].status = "failed"
                   /\ jobs'[j].error = BudgetMsg
             /\ jobs'[j].status = "failed" =>
                   /\ jobs'[j].retryCount = jobs'[j].maxRetries
                   /\ jobs'[j].retryCount = jobs[j].retryCount + 1 =>
                         jobs'[j].error = BudgetMsg
      ]_vars

\* a job failed for good with the budget message after three attempts
C31_Witness ==
    /\ op.name = "reject"
    /\ op.ret = BudgetMsg
    /\ jobs[op.arg].status = "failed"
    /\ jobs[op.arg].error = BudgetMsg
    /\ jobs[op.arg].retryCount = DefaultMaxRetries
    /\ StartedCount(hist[op.arg]) = DefaultMaxRetries

\* job k has never failed
NeverFailed(js, k) == js[k].retryCount = 0

\* C34: a pending job that has never failed is started only when it precedes,
\* in (priority number, enqueue order), every other pending job that has never
\* failed, also after retries of other jobs and after pause and resume.
C34_FreshJobsInOrder ==
    [][ \A j \in DOMAIN jobs' :
          (StartsNow(j) /\ NeverFailed(jobs', j)) =>
              \A k \in DOMAIN jobs' \ {j} :
                  (jobs'[k].status = "pending" /\ NeverFailed(jobs', k)) =>
                      Before(jobs', j, k) ]_vars

\* C35: once a job is completed, failed or cancelled its status never changes,
\* it is never in the pending list or the running slot again, and its executor
\* is never invoked again, whatever operation follows.
\* (The events of a job show the changes made within one run: each terminal
\* status is announced by its event, and job:started by each dispatch.)
C35_TerminalAbsorbing ==
    [][ /\ \A j \in Ids : isTerminal(jobs[j]) =>
              /\ jobs'[j].status = jobs[j].status
              /\ IndexOfId(queue', j) = 0
              /\ running' # j
              /\ j \notin inflight'
              /\ StartedCount(hist'[j]) = StartedCount(hist[j])
        /\ \A j \in DOMAIN hist' : \A i \in 1..(Len(hist'[j]) - 1) :
              hist'[j][i] \notin TerminalEvents ]_vars

\* what C36 says of one observation
Consistent(o) ==
    /\ \A i \in DOMAIN o.listed : o.listed[i] = "pending"
    /\ o.slot \in {"none", "running"}
    /\ o.status.running <=> o.runningJobs > 0
    /\ o.status.pending = o.pendingJobs

\* what a caller reads between two runs of the scheduler
CallerView == Observe(QState)

\* C36: whenever a caller or an event handler looks, every job in the pending
\* list has status 'pending' and the running slot holds no job or a job of
\* status 'running', so that getStatus().running tells whether a job has
\* status 'running' and getStatus().pending counts the jobs of status
\* 'pending'.
C36_ObservedConsistent ==
    /\ Consistent(CallerView)
    /\ \A i \in DOMAIN seen : Consistent(seen[i])

(* --------------------- emitter behaviour under change ------------------ *)
\* the invocations made by the emit call itself, not by emits nested in it
OwnCalls(log) == SelectSeq(log, LAMBDA c : c.depth = 0)

\* C32: emit(e) invokes exactly the handlers subscribed to e when it was
\* called, each exactly once, also when a handler subscribes or unsubscribes
\* a handler of e or removes all handlers of e during the delivery.
C32_SnapshotDelivery ==
    [][ eeOp'.name = "emit" =>
          LET set == SetOf(eeOp'.event)
              own == OwnCalls(calls')
          IN /\ Len(own) = Len(set)
             /\ \A i \in DOMAIN set : IsCallOf(own[i], set[i]) ]_vars

(* ------------------------------- draining ------------------------------ *)
\* there is a job in the pending list or in the running slot
Busy == queue # <<>> \/ running # 0

\* every job is completed, failed or cancelled, nothing is pending or
\* running, and the run that led here emitted queue:empty
Drained ==
    /\ \A j \in Ids : isTerminal(jobs[j])
    /\ queue = <<>> /\ running = 0
    /\ \E i \in DOMAIN emitted : emitted[i] = QueueEmpty

\* C37: if every executor call settles and the queue is not left paused for
\* ever, then from any state with pending or running work the scheduler
\* reaches a state where every enqueued job is completed, failed or cancelled,
\* the pending list and the running slot are empty, and queue:empty has been
\* emitted.
C37_Drains == Busy ~> Drained

(* ---------------------------- unsubscription --------------------------- *)
\* the Set of event e after the call, empty when the Map has no entry
SetAfter(e) == IF e \in DOMAIN listeners' THEN listeners'[e] ELSE <<>>

\* the members of a Set that do not run callback h
Others(set, h) == SelectSeq(set, LAMBDA x : x.cb # h)

\* C39: after off(e, h), which is also what the function returned by on(e, h)
\* calls, no member of the Set of e runs h, whether h was subscribed with on
\* or with once, so that no later emit(e) invokes it; the other subscribers
\* of e and the subscribers of the other events are as before.
C39_OffUnsubscribes ==
    [][ eeOp'.name = "off" =>
          LET e == eeOp'.event
              h == eeOp'.cb
          IN /\ \A i \in DOMAIN SetAfter(e) : SetAfter(e)[i].cb # h
             /\ Others(SetAfter(e), h) = Others(SetOf(e), h)
             /\ \A x \in Events \ {e} : SetAfter(x) = SetOf(x) ]_vars

====
